---- MODULE Spec2Model ----
(***************************************************************************)
(* A model of the build pipeline of ggplot: the position scales            *)
(* (scales/scale_xy.py), the layer operations (layer.py), the stat base    *)
(* class (stats/stat.py) and the orchestrator ggplot.plot_build            *)
(* (ggplot.py).  Each subsystem has its own specification over the shared  *)
(* variables; the variables of the other subsystems stay idle.             *)
(***************************************************************************)
EXTENDS Integers, Sequences, FiniteSets, TLC

VARIABLES
    \* scales/scale_xy.py: one scale_position_discrete object
    scale,          \* its fields _limits, range, range_c
    sop,            \* the last operation applied to it
    limitsOut,      \* what the last read of the limits property produced
    scalePrev,      \* the fields of the scale before the last operation
    trained,        \* the dtype of the series of the last train, "" before any
    \* layer.py, add_group: the table it is applied to
    tbl,            \* the table as it is now
    tblPrev,        \* the table before the last call of add_group
    applied,        \* how many times add_group was applied
    \* layer.py, calc_statistic, and stats/stat.py: one call on one layer
    statIn,         \* the layer's stat and the data handed to the call
    statOp,         \* the method that was called, "pending" before the call
    statOut,        \* what the call returned or raised
    transformCalls, \* the row counts stat._calculate_groups was invoked with
    \* layer.py, compute_aesthetics: one call on one layer
    aesIn,          \* the layer, the plot's mapping and the data of the call
    aesOp,          \* the method that was called, "pending" before the call
    aesOut,         \* what the call returned or raised
    plotScales,     \* plot.scales, the ScaleSet of the plot handed to the call
    \* ggplot.py, plot_build
    self,           \* the plot plot_build is called on
    self0,          \* that plot as it was before the first build
    plot,           \* the local plot: the deep copy of self
    layers,         \* the local layers
    dataList,       \* the local data: one table per layer
    panel,          \* the local panel: its layout and what the position scales were trained on
    pc,             \* the statement of plot_build that runs next
    idx,            \* the layer a per-layer stage has come to
    trace,          \* the stages this build has run, with their inputs and outputs
    err,            \* the error that ended this build, "" when none did
    builds,         \* how many times plot_build was called
    \* stats/stat.py, _print_warning: the stat objects of the process
    _warnings_printed,  \* the class attribute stat._warnings_printed
    stderr,             \* the messages written to the standard error, in order
    instances,          \* the stat objects made so far: the class of each
    warned              \* the calls of _print_warning so far and what each did

svars == <<scale, sop, limitsOut, scalePrev, trained>>
gvars == <<tbl, tblPrev, applied>>
tvars == <<statIn, statOp, statOut, transformCalls>>
avars == <<aesIn, aesOp, aesOut, plotScales>>
bvars == <<self, self0, plot, layers, dataList, panel, pc, idx, trace, err, builds>>
wvars == <<_warnings_printed, stderr, instances, warned>>
vars == <<svars, gvars, tvars, avars, bvars, wvars>>
\* what the operations of one subsystem leave alone
notScale == <<gvars, tvars, avars, bvars, wvars>>
notGroup == <<svars, tvars, avars, bvars, wvars>>
notStat == <<svars, gvars, avars, bvars, wvars>>
notAes == <<svars, gvars, tvars, bvars, wvars>>
notBuild == <<svars, gvars, tvars, avars, wvars>>
notWarn == <<svars, gvars, tvars, avars, bvars>>

(***************************************************************************)
(* Bounds                                                                  *)
(***************************************************************************)
NLevels == 2          \* discrete levels 1..NLevels
MaxHalf == 3          \* continuous values h/2 for h in 0..MaxHalf
MaxSeriesLen == 2     \* longest series handed to train
MaxRows == 3          \* most rows of a table
NVals == 2            \* cell values 1..NVals
MaxApply == 2         \* add_group is applied at most this many times in a row
MaxConstLen == 4      \* longest list-like constant of a mapping
MaxLayers == 2        \* most layers of a plot
NMessages == 2        \* warning messages 1..NMessages
MaxInstances == 2     \* most stat objects of the process
MaxCalls == 3         \* _print_warning is called at most this many times
MaxBuilds == 2        \* plot_build is called at most this many times on a plot

(***************************************************************************)
(* Values.  A discrete level k is <<"d", k>>, an integer n reported as a   *)
(* limit is <<"i", n>>.  A continuous value is counted in halves, so that  *)
(* floor and ceil are not the identity.                                    *)
(***************************************************************************)
None == <<>>
Levels == {<<"d", k>> : k \in 1..NLevels}
Halves == 0..MaxHalf
SeqsUpTo(S, n) == UNION {[1..k -> S] : k \in 0..n}
DiscreteSeries == {[dtype |-> "discrete", vals |-> v] : v \in SeqsUpTo(Levels, MaxSeriesLen)}
ContinuousSeries == {[dtype |-> "continuous", vals |-> v] : v \in SeqsUpTo(Halves, MaxSeriesLen)}
Series == DiscreteSeries \cup ContinuousSeries
Elems(q) == {q[i] : i \in 1..Len(q)}
SetMin(S) == CHOOSE m \in S : \A x \in S : m <= x
SetMax(S) == CHOOSE m \in S : \A x \in S : m >= x
Floor(h) == h \div 2
Ceil(h) == (h + 1) \div 2

(***************************************************************************)
(* scale_position_discrete                                                 *)
(***************************************************************************)
\* the user-specified limits a scale may be constructed with (none, or one level)
UserLimits == {{}, {<<"d", 1>>}}
NewScale(lim) == [_limits |-> lim, range |-> {}, range_c |-> None]

\* scale_discrete.train: the observed level set is extended by the series
discrete_train(s, series) == [s EXCEPT !.range = @ \cup Elems(series.vals)]

\* scale_continuous.train: the (min, max) pair held in range is extended by
\* the series; an empty series leaves it as it is
train_continuous(s, series) ==
    IF Len(series.vals) = 0 THEN s
    ELSE LET lo == SetMin(Elems(series.vals))
             hi == SetMax(Elems(series.vals))
         IN  IF s.range = None THEN [s EXCEPT !.range = <<lo, hi>>]
             ELSE [s EXCEPT !.range = <<IF lo < @[1] THEN lo ELSE @[1],
                                          IF hi > @[2] THEN hi ELSE @[2]>>]

\* a slip of train: the continuous branch trains from an unset range
train_fresh(s, series) ==
    IF series.dtype = "continuous"
    THEN LET backup == s.range
             t == train_continuous([s EXCEPT !.range = None], series)
         IN  [t EXCEPT !.range_c = t.range, !.range = backup]
    ELSE discrete_train(s, series)

\* a slip of train: training with a discrete series forgets the continuous range
train_forgets(s, series) ==
    IF series.dtype = "continuous"
    THEN LET backup == s.range
             t == train_continuous([s EXCEPT !.range = s.range_c], series)
         IN  [t EXCEPT !.range_c = t.range, !.range = backup]
    ELSE [discrete_train(s, series) EXCEPT !.range_c = None]

\* scale_position_discrete.train
train(s, series) ==
    IF series.dtype = "continuous"
    THEN LET backup == s.range
             t == train_continuous([s EXCEPT !.range = s.range_c], series)
         IN  [t EXCEPT !.range_c = t.range, !.range = backup]
    ELSE discrete_train(s, series)

\* scale_position_discrete.reset
reset(s) == [s EXCEPT !.range_c = None]

\* scale_position_discrete.limits: the error of the last branch is built
\* and dropped, the property then returns None
limits(s) ==
    IF s._limits # {} THEN [kind |-> "value", val |-> s._limits]
    ELSE IF s.range # {} THEN [kind |-> "value", val |-> s.range]
    ELSE IF s.range_c # None
         THEN [kind |-> "value",
               val |-> {<<"i", n>> : n \in Floor(s.range_c[1])..Ceil(s.range_c[2])}]
    ELSE [kind |-> "none", val |-> {}]

NoResult == [kind |-> "unread", val |-> {}]

Train ==
    \E series \in Series :
        /\ scale' = train(scale, series)
        /\ sop' = "train"
        /\ scalePrev' = scale
        /\ trained' = series.dtype
        /\ UNCHANGED <<limitsOut, notScale>>

Reset ==
    /\ scale' = reset(scale)
    /\ sop' = "reset"
    /\ scalePrev' = scale
    /\ UNCHANGED <<limitsOut, trained, notScale>>

GetLimits ==
    /\ limitsOut' = limits(scale)
    /\ sop' = "limits"
    /\ scalePrev' = scale
    /\ UNCHANGED <<scale, trained, notScale>>

(***************************************************************************)
(* Tables.  A table has n rows, named columns of n cells each, and a dtype *)
(* per column.                                                             *)
(***************************************************************************)
Vals == 1..NVals
Dtypes == {"discrete", "continuous"}
Columns(t) == DOMAIN t.col
EmptyTable == [n |-> 0, col |-> <<>>, dtype |-> <<>>]
\* data[name] = cells, with the dtype of the cells
SetColumn(t, name, cells, dt) ==
    [t EXCEPT !.col = [c \in Columns(t) \cup {name} |-> IF c = name THEN cells ELSE t.col[c]],
              !.dtype = [c \in Columns(t) \cup {name} |-> IF c = name THEN dt ELSE t.dtype[c]]]

(***************************************************************************)
(* add_group                                                               *)
(***************************************************************************)
\* the order in which the columns of a table are visited
ColumnOrder == <<"group", "a", "b", "label">>
RECURSIVE ComboCode(_, _, _, _)
\* a number for the combination of the cells of row i in the columns cs,
\* distinct combinations getting distinct numbers
ComboCode(t, cs, i, k) ==
    IF k > Len(ColumnOrder) THEN 0
    ELSE LET c == ColumnOrder[k]
             rest == ComboCode(t, cs, i, k + 1)
         IN  IF c \in cs THEN t.col[c][i] + (NVals + 1) * rest ELSE rest

\* utils.ninteraction(df[cs], drop=True): the dense 1-based enumeration of
\* the combinations that occur, in their sorted order
ninteraction(t, cs) ==
    LET codes == {ComboCode(t, cs, i, 1) : i \in 1..t.n}
    IN  [i \in 1..t.n |-> 1 + Cardinality({c \in codes : c < ComboCode(t, cs, i, 1)})]

\* discrete_columns(df, ignore)
discrete_columns(t, ignore) ==
    {c \in Columns(t) : t.dtype[c] = "discrete" /\ c \notin ignore}

\* a slip of add_group: an existing group column is overwritten by the
\* single implicit group
add_group_single(t) ==
    IF t.n = 0 THEN t
    ELSE IF "group" \notin Columns(t)
    THEN LET disc == discrete_columns(t, {"label"})
         IN  IF disc # {}
             THEN SetColumn(t, "group", ninteraction(t, disc), "continuous")
             ELSE SetColumn(t, "group", [i \in 1..t.n |-> 1], "continuous")
    ELSE SetColumn(t, "group", [i \in 1..t.n |-> 1], "continuous")

\* add_group(data)
add_group(t) ==
    IF t.n = 0 THEN t
    ELSE IF "group" \notin Columns(t)
    THEN LET disc == discrete_columns(t, {"label"})
         IN  IF disc # {}
             THEN SetColumn(t, "group", ninteraction(t, disc), "continuous")
             ELSE SetColumn(t, "group", [i \in 1..t.n |-> 1], "continuous")
    ELSE SetColumn(t, "group", ninteraction(t, {"group"}), "continuous")

\* the tables add_group is tried on: any subset of the columns group, a, b
\* and label; a is discrete or continuous, b and label are discrete.  The
\* cells of the column that decides the groups are free (group where it is
\* there, a otherwise), a is constant beside a group column, the cells of b
\* alternate and those of label differ from row to row
GroupTables ==
    {[n |-> n,
      col |-> [c \in P |-> CASE c = "label" -> [i \in 1..n |-> i]
                            [] c = "b" -> [i \in 1..n |-> 1 + (i % 2)]
                            [] c = "a" /\ "group" \in P -> [i \in 1..n |-> 1]
                            [] OTHER -> f],
      dtype |-> [c \in P |-> IF c = "a" THEN adt ELSE "discrete"]] :
        <<n, P, f, adt>> \in
            UNION {UNION {{<<m, Q, g, d>> : g \in [1..m -> Vals], d \in Dtypes} :
                          Q \in SUBSET {"group", "a", "b", "label"}} : m \in 0..MaxRows}}

AddGroup ==
    /\ applied < MaxApply
    /\ tblPrev' = tbl
    /\ tbl' = add_group(tbl)
    /\ applied' = applied + 1
    /\ UNCHANGED notGroup

(***************************************************************************)
(* calc_statistic and the stat base class                                  *)
(***************************************************************************)
StatNames == {"stat_bin", "stat_density"}
\* a stat: its class name, its REQUIRED_AES, the keys of its params, the
\* columns it CREATES and its DEFAULT_AES
Stats ==
    {[name |-> nm, REQUIRED_AES |-> req, params |-> par, CREATES |-> cr, DEFAULT_AES |-> <<>>] :
        nm \in StatNames, req \in SUBSET {"x", "weight"}, par \in SUBSET {"weight", "binwidth"},
        cr \in {{}, {"count"}}}
\* the data of a layer: n rows in any of the columns x and weight
StatTables ==
    {[n |-> n, col |-> [c \in P |-> [i \in 1..n |-> i]], dtype |-> [c \in P |-> "continuous"]] :
        <<n, P>> \in (0..MaxRows) \X SUBSET {"x", "weight"}}

\* utils.check_required_aesthetics(required, present, name)
check_required_aesthetics(required, present, name) ==
    LET missing == required \ present
    IN  IF missing # {}
        THEN [kind |-> "raise", error |-> "MissingAestheticError", stat |-> name, missing |-> missing]
        ELSE [kind |-> "pass"]

\* stat._verify_aesthetics(data)
_verify_aesthetics(st, data) ==
    LET missing_aes == st.REQUIRED_AES \ Columns(data)
    IN  IF missing_aes # {}
        THEN [kind |-> "raise", error |-> "MissingAestheticError", stat |-> st.name,
              missing |-> missing_aes]
        ELSE [kind |-> "pass"]

\* the transform of a stat on the rows of one group: the columns named in
\* CREATES are added, each holding the number of rows of the group
GroupOf(data, i) == IF "group" \in Columns(data) THEN data.col["group"][i] ELSE 1
RowsOfGroup(data, i) == Cardinality({j \in 1..data.n : GroupOf(data, j) = GroupOf(data, i)})
transform(st, data) ==
    [n |-> data.n,
     col |-> [c \in Columns(data) \cup st.CREATES |->
                 IF c \in st.CREATES THEN [i \in 1..data.n |-> RowsOfGroup(data, i)]
                 ELSE data.col[c]],
     dtype |-> [c \in Columns(data) \cup st.CREATES |->
                   IF c \in st.CREATES THEN "continuous" ELSE data.dtype[c]]]

\* stat._calculate_groups(data, scales): the transform is invoked on the rows
\* it is handed; calls is the record of its invocations
_calculate_groups(st, data, calls) ==
    [out |-> [kind |-> "computed", stat |-> st.name, rows |-> data.n,
              table |-> transform(st, data)],
     calls |-> Append(calls, data.n)]

\* a slip of calc_statistic: no short cut for a table without rows
calc_statistic_always(st, data, calls) ==
    LET chk == check_required_aesthetics(st.REQUIRED_AES, Columns(data) \cup st.params, st.name)
    IN  IF chk.kind = "raise" THEN [out |-> chk, calls |-> calls]
        ELSE _calculate_groups(st, data, calls)

\* a slip of calc_statistic: the parameters of the stat do not count as present
calc_statistic_columns(st, data, calls) ==
    IF data.n = 0 THEN [out |-> [kind |-> "empty", table |-> EmptyTable], calls |-> calls]
    ELSE LET chk == check_required_aesthetics(st.REQUIRED_AES, Columns(data), st.name)
         IN  IF chk.kind = "raise" THEN [out |-> chk, calls |-> calls]
             ELSE _calculate_groups(st, data, calls)

\* layer.calc_statistic(data, scales)
calc_statistic(st, data, calls) ==
    IF data.n = 0 THEN [out |-> [kind |-> "empty", table |-> EmptyTable], calls |-> calls]
    ELSE LET chk == check_required_aesthetics(st.REQUIRED_AES, Columns(data) \cup st.params, st.name)
         IN  IF chk.kind = "raise" THEN [out |-> chk, calls |-> calls]
             ELSE _calculate_groups(st, data, calls)

CalcStatistic ==
    /\ statOp = "pending"
    /\ LET r == calc_statistic(statIn.stat, statIn.data, transformCalls)
       IN  /\ statOut' = r.out
           /\ transformCalls' = r.calls
    /\ statOp' = "calc_statistic"
    /\ UNCHANGED <<statIn, notStat>>

VerifyAesthetics ==
    /\ statOp = "pending"
    /\ statOut' = _verify_aesthetics(statIn.stat, statIn.data)
    /\ statOp' = "_verify_aesthetics"
    /\ UNCHANGED <<statIn, transformCalls, notStat>>

(***************************************************************************)
(* Aesthetic mappings and compute_aesthetics                               *)
(***************************************************************************)
\* the values of a mapping: a string naming a column, a string in dot
\* notation ("..count.."), a list-like constant of some length, or anything
\* else (a number)
Col(c) == [kind |-> "col", name |-> c, len |-> 0]
Calc(c) == [kind |-> "calc", name |-> c, len |-> 0]
List(k) == [kind |-> "list", name |-> "", len |-> k]
Scalar == [kind |-> "scalar", name |-> "", len |-> 0]
IsString(v) == v.kind \in {"col", "calc"}
IsListLike(v) == v.kind = "list"
Keys(m) == DOMAIN m
\* the mappings over the aesthetics A with values in V
Mappings(A, V) == UNION {[K -> V] : K \in SUBSET A}

\* utils.defaults(d1, d2): d1 completed by the entries of d2 it lacks
defaults(d1, d2) ==
    [k \in Keys(d1) \cup Keys(d2) |-> IF k \in Keys(d1) THEN d1[k] ELSE d2[k]]

\* components.aes.is_calculated_aes(aesthetics)
is_calculated_aes(aesthetics) == {ae \in Keys(aesthetics) : aesthetics[ae].kind = "calc"}

\* a slip of layer_mapping: the entries of the plot win over those of the layer
layer_mapping_plot_first(l, mapping) ==
    LET aesthetics == IF l.inherit_aes THEN defaults(mapping, l.mapping) ELSE l.mapping
        manual == l.manual_aes
        calculated == is_calculated_aes(aesthetics)
    IN  [ae \in {k \in Keys(aesthetics) : k \notin manual /\ k \notin calculated}
            |-> aesthetics[ae]]

\* layer.layer_mapping(mapping)
layer_mapping(l, mapping) ==
    LET aesthetics == IF l.inherit_aes THEN defaults(l.mapping, mapping) ELSE l.mapping
        manual == l.manual_aes
        calculated == is_calculated_aes(aesthetics)
    IN  [ae \in {k \in Keys(aesthetics) : k \notin manual /\ k \notin calculated}
            |-> aesthetics[ae]]

\* scales.scales_add_defaults(scales, data, aesthetics): a default scale,
\* of the type of the data, for every aesthetic that has none and maps a
\* column of the data
scales_add_defaults(scales, data, aesthetics) ==
    scales \cup
    {[aesthetic |-> ae, type |-> data.dtype[aesthetics[ae].name]] :
        ae \in {k \in Keys(aesthetics) :
                    /\ \A sc \in scales : sc.aesthetic # k
                    /\ aesthetics[k].kind = "col"
                    /\ aesthetics[k].name \in Columns(data)}}

\* DataFrame.update(other): the columns of the frame that other has too
\* are overwritten, no column is added
update(evaled, settings) ==
    [evaled EXCEPT !.col = [c \in Columns(evaled) |->
                               IF c \in Keys(settings)
                               THEN [i \in 1..evaled.n |-> settings[c]]
                               ELSE evaled.col[c]]]

\* the effective mapping of compute_aesthetics: layer_mapping with the
\* group override of the layer
EffectiveMapping(l, plotMapping) ==
    LET aesthetics == layer_mapping(l, plotMapping)
    IN  IF l.group # None
        THEN [ae \in Keys(aesthetics) \cup {"group"} |->
                 IF ae = "group" THEN l.group ELSE aesthetics[ae]]
        ELSE aesthetics

Raise(kind, ae) == [kind |-> "raise", error |-> kind, ae |-> ae, table |-> EmptyTable]
Return(t) == [kind |-> "return", error |-> "", ae |-> "", table |-> t]

\* a slip of compute_aesthetics: a list-like constant is turned down only
\* when it is longer than the data
compute_aesthetics_fits(l, data, plotMapping, scales) ==
    LET aesthetics == EffectiveMapping(l, plotMapping)
        scales2 == scales_add_defaults(scales, data, aesthetics)
        aenames == {ae \in Keys(aesthetics) : IsString(aesthetics[ae])}
        listLike == {ae \in Keys(aesthetics) : IsListLike(aesthetics[ae])}
        badLength == {ae \in listLike : aesthetics[ae].len > data.n}
        unknown == Keys(aesthetics) \ (aenames \cup listLike)
        settings == [ae \in listLike |-> aesthetics[ae]]
        noColumn == {ae \in aenames : aesthetics[ae].name \notin Columns(data)}
        renamed == [n |-> IF aenames = {} THEN 0 ELSE data.n,
                    col |-> [ae \in aenames |-> data.col[aesthetics[ae].name]],
                    dtype |-> [ae \in aenames |-> data.dtype[aesthetics[ae].name]]]
        evaled == update(renamed, settings)
    IN  IF badLength \cup unknown # {}
        THEN {[out |-> Raise("DataLengthError", ae), scales |-> scales2] : ae \in badLength}
             \cup {[out |-> Raise("UnknownAestheticError", ae), scales |-> scales2] : ae \in unknown}
        ELSE IF noColumn # {}
        THEN {[out |-> Raise("KeyError", ae), scales |-> scales2] : ae \in noColumn}
        ELSE IF data.n = 0 /\ Keys(settings) # {}
        THEN {[out |-> Return(SetColumn(evaled, "PANEL", <<>>, "continuous")),
               scales |-> scales2]}
        ELSE {[out |-> Return([SetColumn(evaled, "PANEL", data.col["PANEL"],
                                         data.dtype["PANEL"]) EXCEPT !.n = data.n]),
               scales |-> scales2]}

\* layer.compute_aesthetics(data, plot): the outcomes the call can have.
\* The loop visits the aesthetics in the order of the dict, which the code
\* does not fix: any offending aesthetic can be the one that raises.
compute_aesthetics(l, data, plotMapping, scales) ==
    LET aesthetics == EffectiveMapping(l, plotMapping)
        scales2 == scales_add_defaults(scales, data, aesthetics)
        aenames == {ae \in Keys(aesthetics) : IsString(aesthetics[ae])}
        listLike == {ae \in Keys(aesthetics) : IsListLike(aesthetics[ae])}
        badLength == {ae \in listLike :
                         aesthetics[ae].len # data.n \/ aesthetics[ae].len # 1}
        unknown == Keys(aesthetics) \ (aenames \cup listLike)
        settings == [ae \in listLike |-> aesthetics[ae]]
        noColumn == {ae \in aenames : aesthetics[ae].name \notin Columns(data)}
        renamed == [n |-> IF aenames = {} THEN 0 ELSE data.n,
                    col |-> [ae \in aenames |-> data.col[aesthetics[ae].name]],
                    dtype |-> [ae \in aenames |-> data.dtype[aesthetics[ae].name]]]
        evaled == update(renamed, settings)
    IN  IF badLength \cup unknown # {}
        THEN {[out |-> Raise("DataLengthError", ae), scales |-> scales2] : ae \in badLength}
             \cup {[out |-> Raise("UnknownAestheticError", ae), scales |-> scales2] : ae \in unknown}
        ELSE IF noColumn # {}
        THEN {[out |-> Raise("KeyError", ae), scales |-> scales2] : ae \in noColumn}
        ELSE IF data.n = 0 /\ Keys(settings) # {}
        THEN {[out |-> Return(SetColumn(evaled, "PANEL", <<>>, "continuous")),
               scales |-> scales2]}
        ELSE {[out |-> Return([SetColumn(evaled, "PANEL", data.col["PANEL"],
                                         data.dtype["PANEL"]) EXCEPT !.n = data.n]),
               scales |-> scales2]}

\* the data of a layer after facet.map_layout: n rows in the columns a
\* (continuous), b (discrete) and PANEL
LayerData(n) ==
    [n |-> n,
     col |-> [c \in {"a", "b", "PANEL"} |->
                 CASE c = "a" -> [i \in 1..n |-> i]
                   [] c = "b" -> [i \in 1..n |-> 1 + (i % 2)]
                   [] OTHER -> [i \in 1..n |-> 1]],
     dtype |-> [c \in {"a", "b", "PANEL"} |-> IF c = "b" THEN "discrete" ELSE "continuous"]]

\* what a layer maps x and color to, and what the plot maps x and y to
LayerValues == {Col("a"), Col("z"), Calc("count"), Scalar} \cup {List(k) : k \in 0..MaxConstLen}
PlotValues == {Col("a"), Col("b"), Calc("count"), List(2)}
Layers ==
    {[mapping |-> m, inherit_aes |-> inh, manual_aes |-> man, group |-> g] :
        m \in Mappings({"x", "color"}, LayerValues), inh \in BOOLEAN,
        man \in SUBSET {"color"}, g \in {None, Col("b")}}

ComputeAesthetics ==
    /\ aesOp = "pending"
    /\ \E r \in compute_aesthetics(aesIn.layer, aesIn.data, aesIn.plotMapping, plotScales) :
           /\ aesOut' = r.out
           /\ plotScales' = r.scales
    /\ aesOp' = "compute_aesthetics"
    /\ UNCHANGED <<aesIn, notAes>>

\* a call of layer.layer_mapping(plot.mapping) on the layer
LayerMapping ==
    /\ aesOp = "pending"
    /\ aesOut' = [kind |-> "mapping",
                  mapping |-> layer_mapping(aesIn.layer, aesIn.plotMapping)]
    /\ aesOp' = "layer_mapping"
    /\ UNCHANGED <<aesIn, plotScales, notAes>>

(***************************************************************************)
(* map_statistic                                                           *)
(***************************************************************************)
\* strip_dots(value): layer.py uses the name without importing or defining
\* it, the call is a NameError
strip_dots(v) == Raise("NameError", v.name)

\* pd.concat([data, stat_data], axis=1): the columns of stat_data are put
\* after those of data; a name data has already is then there twice, the
\* second one is written name.1 here
Concat(d, stat_data) ==
    LET second(c) == IF c \in Columns(d) THEN c \o ".1" ELSE c
        added == {second(c) : c \in Columns(stat_data)}
        from(c2) == CHOOSE c \in Columns(stat_data) : second(c) = c2
    IN  [n |-> d.n,
         col |-> [c \in Columns(d) \cup added |->
                     IF c \in Columns(d) THEN d.col[c] ELSE stat_data.col[from(c)]],
         dtype |-> [c \in Columns(d) \cup added |->
                       IF c \in Columns(d) THEN d.dtype[c] ELSE stat_data.dtype[from(c)]]]

\* layer.map_statistic(data, plot): the outcome and plot.scales after it
map_statistic(l, d, plotMapping, scales) ==
    IF d.n = 0 THEN {[out |-> Return(EmptyTable), scales |-> scales]}
    ELSE LET own == l.mapping
             inherited == IF l.inherit_aes THEN defaults(own, plotMapping) ELSE own
             aesthetics == defaults(inherited, l.stat.DEFAULT_AES)
             calculated == is_calculated_aes(aesthetics)
             stripped == [ae \in calculated |-> strip_dots(aesthetics[ae])]
             failed == {ae \in calculated : stripped[ae].kind = "raise"}
             new == [ae \in calculated |-> stripped[ae].name]
             noColumn == {ae \in calculated : new[ae] \notin Columns(d)}
             stat_data == [n |-> d.n,
                           col |-> [ae \in calculated |-> d.col[new[ae]]],
                           dtype |-> [ae \in calculated |-> d.dtype[new[ae]]]]
         IN  IF failed # {}
             THEN {[out |-> stripped[ae], scales |-> scales] : ae \in failed}
             ELSE IF noColumn # {}
             THEN {[out |-> Raise("KeyError", ae), scales |-> scales] : ae \in noColumn}
             ELSE IF calculated = {}
             THEN {[out |-> Return(d), scales |-> scales]}
             ELSE {[out |-> Return(Concat(d, stat_data)),
                    scales |-> scales_add_defaults(scales, d,
                                  [ae \in calculated |-> Col(new[ae])])]}

(***************************************************************************)
(* ggplot.plot_build                                                       *)
(***************************************************************************)
\* a table of the user: n rows in the columns a (continuous) and b (discrete)
RawData(n) ==
    [n |-> n,
     col |-> [c \in {"a", "b"} |->
                 IF c = "a" THEN [i \in 1..n |-> i] ELSE [i \in 1..n |-> 1 + (i % 2)]],
     dtype |-> [c \in {"a", "b"} |-> IF c = "b" THEN "discrete" ELSE "continuous"]]
\* a DataFrame object: the object it is, and its table
DataObject(id, n) == [id |-> id, table |-> RawData(n)]
NoData == [id |-> "None", table |-> EmptyTable]
NoPlot == [owner |-> "None"]

stat_identity ==
    [name |-> "stat_identity", REQUIRED_AES |-> {}, params |-> {}, CREATES |-> {},
     DEFAULT_AES |-> <<>>]
stat_bin ==
    [name |-> "stat_bin", REQUIRED_AES |-> {"x"}, params |-> {"binwidth"},
     CREATES |-> {"count"}, DEFAULT_AES |-> [y |-> Calc("count")]]
stat_sum ==
    [name |-> "stat_sum", REQUIRED_AES |-> {"x", "weight"}, params |-> {}, CREATES |-> {},
     DEFAULT_AES |-> <<>>]

\* layer(geom, stat, data, mapping, position, params, inherit_aes, group): a
\* layer object of the plot self
Layer(geom, st, d, mapping, inherit_aes) ==
    [owner |-> "self", geom |-> geom, manual_aes |-> {}, stat |-> st, data |-> d,
     mapping |-> mapping, position |-> "identity", inherit_aes |-> inherit_aes,
     group |-> None]
\* the layers the plots are made of: a layer that inherits the mapping of
\* the plot, one with data of its own, one without rows, one with a constant
\* aesthetic, one whose stat computes an aesthetic, one whose stat requires
\* an aesthetic that is not there
LayerChoices ==
    {Layer("point", stat_identity, NoData, <<>>, TRUE),
     Layer("bar", stat_identity, DataObject("layer.data", MaxRows), [x |-> Col("b")], FALSE),
     Layer("point", stat_identity, DataObject("layer.data", 0), [x |-> Col("a")], FALSE),
     Layer("point", stat_identity, NoData, [color |-> List(1)], TRUE),
     Layer("bar", stat_bin, NoData, [x |-> Col("b")], FALSE),
     Layer("point", stat_sum, NoData, [x |-> Col("a")], FALSE)}
PlotMappings == {[x |-> Col("a"), y |-> Col("a")], [x |-> Col("b")]}
\* ggplot.__init__ followed by the addition of layers
Plots ==
    {[owner |-> "self", data |-> DataObject("plot.data", 2), mapping |-> m, layers |-> ls,
      scales |-> [owner |-> "self", scales |-> {}]] :
        m \in PlotMappings, ls \in SeqsUpTo(LayerChoices, MaxLayers)}

\* layer.__deepcopy__: every field but data is copied
layer_deepcopy(l) == [l EXCEPT !.owner = "plot"]
\* ggplot.__deepcopy__: every field but data and plot_env is copied
ggplot_deepcopy(p) ==
    [p EXCEPT !.owner = "plot",
              !.layers = [k \in 1..Len(p.layers) |-> layer_deepcopy(p.layers[k])],
              !.scales = [@ EXCEPT !.owner = "plot"]]

NoPanel == [layout |-> "None", trainedOn |-> {}, x |-> {}, y |-> {}]
Entry(stage, k, on, scalesOf, input, output) ==
    [stage |-> stage, layer |-> k, on |-> on, scalesOf |-> scalesOf,
     input |-> input, output |-> output]
NLayers == Len(self.layers)

\* a slip of plot_build: a plot without layers is not turned down
PlotBuildUnguarded ==
    /\ pc \in {"idle", "done", "failed"}
    /\ builds < MaxBuilds
    /\ builds' = builds + 1
    /\ plot' = NoPlot /\ layers' = <<>> /\ dataList' = <<>> /\ panel' = NoPanel
    /\ idx' = 0 /\ trace' = <<>>
    /\ pc' = "deepcopy" /\ err' = ""
    /\ UNCHANGED <<self, self0, notBuild>>

\* plot_build is called: its locals are fresh, and a plot without layers is
\* turned down
PlotBuild ==
    /\ pc \in {"idle", "done", "failed"}
    /\ builds < MaxBuilds
    /\ builds' = builds + 1
    /\ plot' = NoPlot /\ layers' = <<>> /\ dataList' = <<>> /\ panel' = NoPanel
    /\ idx' = 0 /\ trace' = <<>>
    /\ IF Len(self.layers) = 0
       THEN pc' = "failed" /\ err' = "NoLayersError"
       ELSE pc' = "deepcopy" /\ err' = ""
    /\ UNCHANGED <<self, self0, notBuild>>

\* plot = deepcopy(self); layers = self.layers; layer_data; scales = plot.scales
Clone ==
    /\ pc = "deepcopy"
    /\ plot' = ggplot_deepcopy(self)
    /\ layers' = self.layers
    /\ trace' = Append(trace, Entry("clone", 0, "", "", <<>>, <<>>))
    /\ pc' = "train_layout"
    /\ UNCHANGED <<self, self0, dataList, panel, idx, err, builds, notBuild>>

\* panel.layout = plot.facet.train_layout(all_data), for the null facet
TrainLayout ==
    /\ pc = "train_layout"
    /\ panel' = [panel EXCEPT !.layout = "single panel"]
    /\ trace' = Append(trace, Entry("train_layout", 0, "", "",
                                    <<plot.data.id>> \o [k \in 1..NLayers |-> self.layers[k].data.id],
                                    <<>>))
    /\ pc' = "map_layout"
    /\ UNCHANGED <<self, self0, plot, layers, dataList, idx, err, builds, notBuild>>

\* data = plot.facet.map_layout(panel.layout, layer_data, plot.data): a copy
\* of the data of each layer, or of the plot for a layer without data, with
\* the PANEL column
MapLayout ==
    /\ pc = "map_layout"
    /\ LET layer_data == [k \in 1..NLayers |-> self.layers[k].data]
           out == [k \in 1..NLayers |->
                      LET d == IF layer_data[k] = NoData THEN plot.data ELSE layer_data[k]
                      IN  SetColumn(d.table, "PANEL", [i \in 1..d.table.n |-> 1], "continuous")]
       IN  /\ dataList' = out
           /\ trace' = Append(trace, Entry("map_layout", 0, "", "",
                                           [k \in 1..NLayers |-> layer_data[k].id], out))
    /\ pc' = "compute_aesthetics"
    /\ idx' = 1
    /\ UNCHANGED <<self, self0, plot, layers, panel, err, builds, notBuild>>

\* what a per-layer stage does once layer k is done: on to the next layer,
\* or on to the next stage after the last layer
NextLayer(k, stage, nextStage) ==
    IF k < NLayers THEN pc' = stage /\ idx' = k + 1
    ELSE pc' = nextStage /\ idx' = IF nextStage \in {"add_group", "adjust_position"} THEN 1 ELSE 0
Fail(error) == pc' = "failed" /\ err' = error /\ idx' = 0

\* data = dlapply(lambda d, l: l.compute_aesthetics(d, plot)), layer by layer
ComputeAestheticsStage ==
    /\ pc = "compute_aesthetics"
    /\ LET k == idx
           l == layers[k]
       IN  \E r \in compute_aesthetics(l, dataList[k], plot.mapping, plot.scales.scales) :
               /\ plot' = [plot EXCEPT !.scales.scales = r.scales]
               /\ trace' = Append(trace, Entry("compute_aesthetics", k, l.owner,
                                               plot.scales.owner, dataList[k], r.out.table))
               /\ IF r.out.kind = "raise"
                  THEN Fail(r.out.error) /\ UNCHANGED dataList
                  ELSE /\ dataList' = [dataList EXCEPT ![k] = r.out.table]
                       /\ NextLayer(k, "compute_aesthetics", "add_group")
                       /\ UNCHANGED err
    /\ UNCHANGED <<self, self0, layers, panel, builds, notBuild>>

\* a slip of plot_build: the position scales are not trained before the
\* positions are mapped and the statistics computed
AddGroupStageUntrained ==
    /\ pc = "add_group"
    /\ LET k == idx
           out == add_group(dataList[k])
       IN  /\ dataList' = [dataList EXCEPT ![k] = out]
           /\ trace' = Append(trace, Entry("add_group", k, "", "", dataList[k], out))
           /\ NextLayer(k, "add_group", "map_position")
    /\ UNCHANGED <<self, self0, plot, layers, panel, err, builds, notBuild>>

\* data = list(map(add_group, data)), table by table
AddGroupStage ==
    /\ pc = "add_group"
    /\ LET k == idx
           out == add_group(dataList[k])
       IN  /\ dataList' = [dataList EXCEPT ![k] = out]
           /\ trace' = Append(trace, Entry("add_group", k, "", "", dataList[k], out))
           /\ NextLayer(k, "add_group", "train_position")
    /\ UNCHANGED <<self, self0, plot, layers, panel, err, builds, notBuild>>

\* scales.get_scales(ae): whether the ScaleSet has a scale for the aesthetic
HasScale(scaleSet, ae) == \E sc \in scaleSet.scales : sc.aesthetic = ae
\* the cells of the column c in the tables that have it
CellsOf(tables, c) ==
    UNION {Elems(tables[k].col[c]) : k \in {j \in 1..Len(tables) : c \in Columns(tables[j])}}

\* x_scale = scales.get_scales('x'); y_scale = scales.get_scales('y');
\* panel.train_position(data, x_scale, y_scale): the position scales are
\* trained on the x and y columns of the data of every layer
TrainPosition ==
    /\ pc = "train_position"
    /\ panel' = [panel EXCEPT
                    !.trainedOn = 1..Len(dataList),
                    !.x = IF HasScale(plot.scales, "x") THEN CellsOf(dataList, "x") ELSE {},
                    !.y = IF HasScale(plot.scales, "y") THEN CellsOf(dataList, "y") ELSE {}]
    /\ trace' = Append(trace, Entry("train_position", 0, "", plot.scales.owner, dataList, <<>>))
    /\ pc' = "map_position"
    /\ UNCHANGED <<self, self0, plot, layers, dataList, idx, err, builds, notBuild>>

\* scale.map(series, limits) of a position scale on one column: a discrete
\* cell becomes its 1-based place among the limits, a continuous one stays
MapColumn(t, c, lim) ==
    IF c \in Columns(t) /\ t.dtype[c] = "discrete"
    THEN SetColumn(t, c, [i \in 1..t.n |-> 1 + Cardinality({v \in lim : v < t.col[c][i]})],
                   "continuous")
    ELSE t

\* data = panel.map_position(data, x_scale, y_scale)
MapPosition ==
    /\ pc = "map_position"
    /\ LET out == [k \in 1..Len(dataList) |->
                      MapColumn(MapColumn(dataList[k], "x", panel.x), "y", panel.y)]
       IN  /\ dataList' = out
           /\ trace' = Append(trace, Entry("map_position", 0, "", plot.scales.owner, dataList, out))
    /\ pc' = "calculate_stats"
    /\ UNCHANGED <<self, self0, plot, layers, panel, idx, err, builds, notBuild>>

\* data = panel.calculate_stats(data, layers): calc_statistic of every layer
\* on its table, in the order of the layers
CalculateStats ==
    /\ pc = "calculate_stats"
    /\ LET res == [k \in 1..Len(dataList) |->
                      calc_statistic(layers[k].stat, dataList[k], <<>>).out]
           raising == {k \in 1..Len(dataList) : res[k].kind = "raise"}
           out == [k \in 1..Len(dataList) |->
                      IF res[k].kind = "raise" THEN EmptyTable ELSE res[k].table]
       IN  /\ trace' = Append(trace, Entry("calculate_stats", 0, layers[1].owner,
                                           plot.scales.owner, dataList, out))
           /\ IF raising # {}
              THEN Fail(res[SetMin(raising)].error) /\ UNCHANGED dataList
              ELSE /\ dataList' = out
                   /\ pc' = "map_statistic" /\ idx' = 1
                   /\ UNCHANGED err
    /\ UNCHANGED <<self, self0, plot, layers, panel, builds, notBuild>>

\* data = dlapply(lambda d, l: l.map_statistic(d, plot)), layer by layer
MapStatisticStage ==
    /\ pc = "map_statistic"
    /\ LET k == idx
           l == layers[k]
       IN  \E r \in map_statistic(l, dataList[k], plot.mapping, plot.scales.scales) :
               /\ plot' = [plot EXCEPT !.scales.scales = r.scales]
               /\ trace' = Append(trace, Entry("map_statistic", k, l.owner,
                                               plot.scales.owner, dataList[k], r.out.table))
               /\ IF r.out.kind = "raise"
                  THEN Fail(r.out.error) /\ UNCHANGED dataList
                  ELSE /\ dataList' = [dataList EXCEPT ![k] = r.out.table]
                       /\ NextLayer(k, "map_statistic", "scales_add_missing")
                       /\ UNCHANGED err
    /\ UNCHANGED <<self, self0, layers, panel, builds, notBuild>>

\* scales_add_missing(plot, ('x', 'y')): a continuous default scale for each
\* of the two aesthetics that has none
ScalesAddMissing ==
    /\ pc = "scales_add_missing"
    /\ plot' = [plot EXCEPT !.scales.scales =
                   @ \cup {[aesthetic |-> ae, type |-> "continuous"] :
                              ae \in {a \in {"x", "y"} : ~HasScale(plot.scales, a)}}]
    /\ trace' = Append(trace, Entry("scales_add_missing", 0, "", plot.scales.owner, <<>>, <<>>))
    /\ pc' = "reparameterise" /\ idx' = 1
    /\ UNCHANGED <<self, self0, layers, dataList, panel, err, builds, notBuild>>

\* layer.reparameterise(data): a bar with a y gets its ymin and ymax, any
\* other geometry keeps its table
reparameterise(l, d) ==
    IF l.geom = "bar" /\ "y" \in Columns(d)
    THEN SetColumn(SetColumn(d, "ymin", [i \in 1..d.n |-> 0], "continuous"),
                   "ymax", d.col["y"], "continuous")
    ELSE d

\* layer.adjust_position(data): the identity adjustment moves nothing
adjust_position(l, d) == d

\* data = dlapply(lambda d, l: l.reparameterise(d)), layer by layer
ReparameteriseStage ==
    /\ pc = "reparameterise"
    /\ LET k == idx
           l == layers[k]
           out == reparameterise(l, dataList[k])
       IN  /\ dataList' = [dataList EXCEPT ![k] = out]
           /\ trace' = Append(trace, Entry("reparameterise", k, l.owner, "", dataList[k], out))
           /\ NextLayer(k, "reparameterise", "adjust_position")
    /\ UNCHANGED <<self, self0, plot, layers, panel, err, builds, notBuild>>

\* data = dlapply(lambda d, l: l.adjust_position(d)), layer by layer
AdjustPositionStage ==
    /\ pc = "adjust_position"
    /\ LET k == idx
           l == layers[k]
           out == adjust_position(l, dataList[k])
       IN  /\ dataList' = [dataList EXCEPT ![k] = out]
           /\ trace' = Append(trace, Entry("adjust_position", k, l.owner, "", dataList[k], out))
           /\ NextLayer(k, "adjust_position", "return")
    /\ UNCHANGED <<self, self0, plot, layers, panel, err, builds, notBuild>>

\* print(data[0]); return panel
ReturnPanel ==
    /\ pc = "return"
    /\ pc' = "done"
    /\ UNCHANGED <<self, self0, plot, layers, dataList, panel, idx, trace, err, builds, notBuild>>

(***************************************************************************)
(* stat._print_warning                                                     *)
(***************************************************************************)
Messages == 1..NMessages
\* stat.__init__: the object holds params and _cache itself; _warnings_printed
\* is an attribute of the class stat, which every stat class inherits
NewStat(cls) == [cls |-> cls, attrs |-> {"params", "_cache"}, origin |-> "__init__"]
\* stat.__deepcopy__: an object of the same class with the attributes the
\* object holds itself
stat_deepcopy(st) == [cls |-> st.cls, attrs |-> st.attrs, origin |-> "__deepcopy__"]

\* a slip of _print_warning: the message is written and not recorded
_print_warning_unrecorded(printed, out, message) ==
    IF message \notin printed
    THEN [printed |-> printed, out |-> Append(out, message)]
    ELSE [printed |-> printed, out |-> out]

\* stat._print_warning(message) on the set self._warnings_printed resolves
\* to and the standard error: what both are after the call
_print_warning(printed, out, message) ==
    IF message \notin printed
    THEN [printed |-> printed \cup {message}, out |-> Append(out, message)]
    ELSE [printed |-> printed, out |-> out]

Construct ==
    \E cls \in StatNames :
        /\ Len(instances) < MaxInstances
        /\ instances' = Append(instances, NewStat(cls))
        /\ UNCHANGED <<_warnings_printed, stderr, warned, notWarn>>

Deepcopy ==
    \E i \in 1..Len(instances) :
        /\ Len(instances) < MaxInstances
        /\ instances' = Append(instances, stat_deepcopy(instances[i]))
        /\ UNCHANGED <<_warnings_printed, stderr, warned, notWarn>>

\* a call of _print_warning on the object i: no attribute of the object
\* shadows the class attribute, the call reads and extends the set of the class
PrintWarning ==
    \E i \in 1..Len(instances), message \in Messages :
        LET r == _print_warning(_warnings_printed, stderr, message)
        IN  /\ Len(warned) < MaxCalls
            /\ "_warnings_printed" \notin instances[i].attrs
            /\ _warnings_printed' = r.printed
            /\ stderr' = r.out
            /\ warned' = Append(warned, [on |-> i, message |-> message,
                                         wrote |-> r.out # stderr, kind |-> "returned"])
            /\ UNCHANGED <<instances, notWarn>>

(***************************************************************************)
(* Specifications                                                          *)
(***************************************************************************)
ScaleInit ==
    /\ scale \in {NewScale(lim) : lim \in UserLimits}
    /\ sop = "new"
    /\ limitsOut = NoResult
    /\ scalePrev = scale
    /\ trained = ""

ScaleIdle ==
    /\ scale = NewScale({})
    /\ sop = "idle"
    /\ limitsOut = NoResult
    /\ scalePrev = scale
    /\ trained = ""

GroupInit ==
    /\ tbl \in GroupTables
    /\ tblPrev = EmptyTable
    /\ applied = 0

GroupIdle ==
    /\ tbl = EmptyTable
    /\ tblPrev = EmptyTable
    /\ applied = 0

StatInit ==
    /\ statIn \in {[stat |-> st, data |-> d] : st \in Stats, d \in StatTables}
    /\ statOp = "pending"
    /\ statOut = [kind |-> "pending"]
    /\ transformCalls = <<>>

StatIdle ==
    /\ statIn = [stat |-> [name |-> "stat_bin", REQUIRED_AES |-> {}, params |-> {},
                           CREATES |-> {}, DEFAULT_AES |-> <<>>],
                 data |-> EmptyTable]
    /\ statOp = "idle"
    /\ statOut = [kind |-> "pending"]
    /\ transformCalls = <<>>

AesInit ==
    /\ aesIn \in {[layer |-> l, plotMapping |-> pm, data |-> LayerData(n)] :
                     l \in Layers, pm \in Mappings({"x", "y"}, PlotValues), n \in 0..MaxRows}
    /\ aesOp = "pending"
    /\ aesOut = [kind |-> "pending"]
    /\ plotScales = {}

AesIdle ==
    /\ aesIn = [layer |-> [mapping |-> <<>>, inherit_aes |-> FALSE, manual_aes |-> {},
                           group |-> None],
                plotMapping |-> <<>>, data |-> EmptyTable]
    /\ aesOp = "idle"
    /\ aesOut = [kind |-> "pending"]
    /\ plotScales = {}

BuildLocalsFresh ==
    /\ self0 = self
    /\ plot = NoPlot
    /\ layers = <<>>
    /\ dataList = <<>>
    /\ panel = NoPanel
    /\ pc = "idle"
    /\ idx = 0
    /\ trace = <<>>
    /\ err = ""
    /\ builds = 0

BuildInit == self \in Plots /\ BuildLocalsFresh

BuildIdle ==
    /\ self = [owner |-> "self", data |-> NoData, mapping |-> <<>>, layers |-> <<>>,
               scales |-> [owner |-> "self", scales |-> {}]]
    /\ BuildLocalsFresh

WarnInit ==
    /\ _warnings_printed = {}
    /\ stderr = <<>>
    /\ instances \in {<<NewStat(cls)>> : cls \in StatNames}
    /\ warned = <<>>

WarnIdle ==
    /\ _warnings_printed = {}
    /\ stderr = <<>>
    /\ instances = <<>>
    /\ warned = <<>>

InitScale == ScaleInit /\ GroupIdle /\ StatIdle /\ AesIdle /\ BuildIdle /\ WarnIdle
NextScale == Train \/ Reset \/ GetLimits
SpecScale == InitScale /\ [][NextScale]_vars

InitGroup == GroupInit /\ ScaleIdle /\ StatIdle /\ AesIdle /\ BuildIdle /\ WarnIdle
NextGroup == AddGroup
SpecGroup == InitGroup /\ [][NextGroup]_vars

InitStat == StatInit /\ ScaleIdle /\ GroupIdle /\ AesIdle /\ BuildIdle /\ WarnIdle
NextStat == CalcStatistic \/ VerifyAesthetics
SpecStat == InitStat /\ [][NextStat]_vars

InitAes == AesInit /\ ScaleIdle /\ GroupIdle /\ StatIdle /\ BuildIdle /\ WarnIdle
NextAes == ComputeAesthetics \/ LayerMapping
SpecAes == InitAes /\ [][NextAes]_vars

InitBuild == BuildInit /\ ScaleIdle /\ GroupIdle /\ StatIdle /\ AesIdle /\ WarnIdle
NextBuild ==
    \/ PlotBuild \/ Clone \/ TrainLayout \/ MapLayout \/ ComputeAestheticsStage
    \/ AddGroupStage \/ TrainPosition \/ MapPosition \/ CalculateStats
    \/ MapStatisticStage \/ ScalesAddMissing \/ ReparameteriseStage
    \/ AdjustPositionStage \/ ReturnPanel
SpecBuild == InitBuild /\ [][NextBuild]_vars

InitWarn == WarnInit /\ ScaleIdle /\ GroupIdle /\ StatIdle /\ AesIdle /\ BuildIdle
NextWarn == Construct \/ Deepcopy \/ PrintWarning
SpecWarn == InitWarn /\ [][NextWarn]_vars

(***************************************************************************)
(* Properties of the position scale                                        *)
(***************************************************************************)
\* what the limits property reports, as a set (nothing when it returns None)
Reported(s) == limits(s).val
\* the interval b encloses the interval a
Encloses(b, a) == a = None \/ (b # None /\ b[1] <= a[1] /\ b[2] >= a[2])
\* the train call that gives a scale without user limits its first discrete
\* level while its limits were derived from range_c
FirstLevelAfterContinuous ==
    /\ scale._limits = {}
    /\ scale.range = {}
    /\ scale.range_c # None
    /\ scale'.range # {}

\* C9 as stated: every train call leaves range, range_c and the reported
\* limits at least what they were before the call.
TrainNeverShrinksAnything ==
    [][sop' = "train" =>
        /\ scale.range \subseteq scale'.range
        /\ Encloses(scale'.range_c, scale.range_c)
        /\ Reported(scale) \subseteq Reported(scale')]_vars

\* C9 amended: every train call leaves range and range_c at least what they
\* were; the reported limits are at least what they were too, except on the
\* train call that adds the first discrete level to a scale whose limits
\* were the integers spanned by range_c: the limits are then the discrete
\* range and those integers are no longer reported.
TrainMonotonic ==
    [][sop' = "train" =>
        /\ scale.range \subseteq scale'.range
        /\ Encloses(scale'.range_c, scale.range_c)
        /\ IF FirstLevelAfterContinuous
           THEN Reported(scale') = scale'.range
           ELSE Reported(scale) \subseteq Reported(scale')]_vars

\* a train call on a scale already trained with both kinds of series
TrainedBothWays ==
    /\ sop = "train"
    /\ scale._limits = {}
    /\ scale.range # {}
    /\ scale.range_c # None
    /\ scale.range_c[1] < scale.range_c[2]

\* C10: reading limits of a scale with no user limits, an empty range and an
\* unset range_c raises UnresolvedScaleError and returns nothing.
UntrainedLimitsRaise ==
    (sop = "limits" /\ scale._limits = {} /\ scale.range = {} /\ scale.range_c = None)
        => limitsOut.kind = "raise"

(***************************************************************************)
(* Properties of add_group                                                 *)
(***************************************************************************)
\* the classes of rows with equal group id
Partition(t) ==
    IF "group" \notin Columns(t) THEN {}
    ELSE {{i \in 1..t.n : t.col["group"][i] = t.col["group"][j]} : j \in 1..t.n}

\* C8: the partition of the rows by group id after add_group(add_group(T))
\* is the partition after add_group(T).
AddGroupIdempotent == applied >= 2 => Partition(tbl) = Partition(tblPrev)

\* add_group applied twice to a table that falls into several groups
AddGroupTwiceSeveralGroups ==
    /\ applied = 2
    /\ Cardinality(Partition(tbl)) >= 2
    /\ \E c \in Partition(tbl) : Cardinality(c) >= 2

(***************************************************************************)
(* Properties of calc_statistic                                            *)
(***************************************************************************)
\* the required aesthetics that are neither a column nor a parameter
Missing == statIn.stat.REQUIRED_AES \ (Columns(statIn.data) \cup statIn.stat.params)

\* C6: calc_statistic on a table without rows returns an empty table and
\* does not invoke the transform; the transform is only ever invoked with at
\* least one row.
EmptyNeverTransformed ==
    /\ \A k \in 1..Len(transformCalls) : transformCalls[k] >= 1
    /\ (statOp = "calc_statistic" /\ statIn.data.n = 0) =>
           statOut = [kind |-> "empty", table |-> EmptyTable] /\ transformCalls = <<>>

\* calc_statistic was called on a table without rows that has every
\* required column
CalledOnEmptyTable ==
    /\ statOp = "calc_statistic"
    /\ statIn.data.n = 0
    /\ statIn.stat.REQUIRED_AES # {}
    /\ Missing = {}

\* C7 as stated: calc_statistic with a required aesthetic that is neither a
\* column nor a parameter raises MissingAestheticError naming the stat and
\* the missing aesthetics and does not invoke the transform; with every
\* required aesthetic present the pre-check raises nothing.
MissingAlwaysRaises ==
    statOp = "calc_statistic" =>
        IF Missing # {}
        THEN /\ statOut = [kind |-> "raise", error |-> "MissingAestheticError",
                           stat |-> statIn.stat.name, missing |-> Missing]
             /\ transformCalls = <<>>
        ELSE statOut.kind # "raise"

\* C7 amended: on a table with at least one row, calc_statistic with a
\* required aesthetic that is neither a column nor a parameter raises
\* MissingAestheticError naming the stat and the missing aesthetics and does
\* not invoke the transform, and with every required aesthetic present the
\* pre-check raises nothing and the transform runs; on a table without rows
\* nothing is checked and the empty table is returned.
MissingRaisesOnRows ==
    statOp = "calc_statistic" =>
        IF statIn.data.n = 0
        THEN statOut.kind = "empty" /\ transformCalls = <<>>
        ELSE IF Missing # {}
        THEN /\ statOut = [kind |-> "raise", error |-> "MissingAestheticError",
                           stat |-> statIn.stat.name, missing |-> Missing]
             /\ transformCalls = <<>>
        ELSE statOut.kind = "computed" /\ transformCalls = <<statIn.data.n>>

\* calc_statistic ran the transform for a stat whose required weight is a
\* parameter and not a column
WeightGivenAsParameter ==
    /\ statOp = "calc_statistic"
    /\ statIn.data.n >= 1
    /\ "weight" \in statIn.stat.REQUIRED_AES
    /\ "weight" \notin Columns(statIn.data)
    /\ "weight" \in statIn.stat.params
    /\ statOut.kind = "computed"

(***************************************************************************)
(* Properties of compute_aesthetics                                        *)
(***************************************************************************)
\* the effective mapping of the call
Effective == EffectiveMapping(aesIn.layer, aesIn.plotMapping)
\* its list-like constants whose length is neither 1 nor the row count
WrongLength ==
    {ae \in Keys(Effective) :
        IsListLike(Effective[ae]) /\ Effective[ae].len \notin {1, aesIn.data.n}}
\* its list-like constants whose length is 1 or the row count
RightLength ==
    {ae \in Keys(Effective) :
        IsListLike(Effective[ae]) /\ Effective[ae].len \in {1, aesIn.data.n}}
\* its values that are neither strings nor list-like
NotUnderstood ==
    {ae \in Keys(Effective) : ~IsString(Effective[ae]) /\ ~IsListLike(Effective[ae])}

\* C3 as stated: with a list-like constant of a length that is neither 1 nor
\* the row count in the effective mapping, compute_aesthetics raises
\* DataLengthError.
WrongLengthRaisesDataLength ==
    (aesOp = "compute_aesthetics" /\ WrongLength # {}) =>
        aesOut.kind = "raise" /\ aesOut.error = "DataLengthError"

\* C3 amended: with a list-like constant of a length that is neither 1 nor
\* the row count in the effective mapping, compute_aesthetics returns no
\* table: it raises DataLengthError, or UnknownAestheticError when the
\* mapping also holds a value that is neither a string nor list-like and the
\* loop comes to that aesthetic first.
WrongLengthRaises ==
    (aesOp = "compute_aesthetics" /\ WrongLength # {}) =>
        /\ aesOut.kind = "raise"
        /\ \/ aesOut.error = "DataLengthError"
           \/ aesOut.error = "UnknownAestheticError" /\ aesOut.ae \in NotUnderstood

\* compute_aesthetics raised DataLengthError for a constant longer than one
\* and shorter than the data, every other value being a column of the data
ShortConstantTurnedDown ==
    /\ aesOp = "compute_aesthetics"
    /\ aesOut.kind = "raise"
    /\ aesOut.error = "DataLengthError"
    /\ aesOut.ae \in WrongLength
    /\ Effective[aesOut.ae].len > 1
    /\ Effective[aesOut.ae].len < aesIn.data.n
    /\ NotUnderstood = {}

\* C4: with a list-like constant of length 1 or of the row count in the
\* effective mapping (and nothing else wrong with the mapping),
\* compute_aesthetics raises nothing and returns a table with a column named
\* by the aesthetic.
RightLengthAccepted ==
    (/\ aesOp = "compute_aesthetics"
     /\ RightLength # {}
     /\ WrongLength = {}
     /\ NotUnderstood = {}
     /\ \A ae \in Keys(Effective) :
            IsString(Effective[ae]) => Effective[ae].name \in Columns(aesIn.data))
        => /\ aesOut.kind = "return"
           /\ RightLength \subseteq Columns(aesOut.table)

(***************************************************************************)
(* Properties of plot_build                                                *)
(***************************************************************************)
PerLayer(stage, n) == [k \in 1..n |-> <<stage, k>>]
\* the stages of a build of a plot with n layers, in the order of the spec
FixedOrder(n) ==
    <<<<"clone", 0>>, <<"train_layout", 0>>, <<"map_layout", 0>>>>
    \o PerLayer("compute_aesthetics", n) \o PerLayer("add_group", n)
    \o <<<<"train_position", 0>>, <<"map_position", 0>>, <<"calculate_stats", 0>>>>
    \o PerLayer("map_statistic", n)
    \o <<<<"scales_add_missing", 0>>>>
    \o PerLayer("reparameterise", n) \o PerLayer("adjust_position", n)
\* the stages that hand on tables, and those that take them
Produces(e) == e.stage \notin {"clone", "train_layout", "train_position", "scales_add_missing"}
Consumes(e) == e.stage \notin {"clone", "train_layout", "map_layout", "scales_add_missing"}
\* the entries before the j-th that produced the table of layer k
ProducersBefore(j, k) ==
    {i \in 1..(j - 1) : Produces(trace[i]) /\ trace[i].layer \in {0, k}}
\* the table of layer k as the latest stage before the j-th left it
LastOutput(j, k) ==
    LET i == SetMax(ProducersBefore(j, k))
    IN  IF trace[i].layer = 0 THEN trace[i].output[k] ELSE trace[i].output
\* the entry of the stage run on layer k (0: on the whole plot)
EntryOf(stage, k) == CHOOSE i \in 1..Len(trace) : trace[i].stage = stage /\ trace[i].layer = k
Ran(stage, k) == \E i \in 1..Len(trace) : trace[i].stage = stage /\ trace[i].layer = k

NoLayersFailsFirst ==
    (NLayers = 0 /\ builds >= 1) =>
        /\ pc = "failed"
        /\ err = "NoLayersError"
        /\ plot = NoPlot
        /\ trace = <<>>
        /\ panel = NoPanel
        /\ self.scales = self0.scales

\* plot_build was called twice on a plot without layers
BuiltTwiceWithoutLayers == NLayers = 0 /\ builds = 2 /\ pc = "failed"

\* C5: a build works on its own deep copy: the per-layer stages are applied
\* to the layers of the clone, the scales created or trained are those of the
\* clone, the plot is after the build what it was before the first one, and
\* the data tables of the clone are those of the plot.
BuildWorksOnItsCopy ==
    /\ \A j \in 1..Len(trace) :
           /\ trace[j].on \in {"", "plot"}
           /\ trace[j].scalesOf \in {"", "plot"}
    /\ self = self0
    /\ plot # NoPlot =>
           /\ plot.data.id = self.data.id
           /\ \A k \in 1..NLayers : plot.layers[k].data.id = self.layers[k].data.id

\* C12: a train call with a continuous series changes only range_c and leaves
\* the discrete level set (range) exactly as it was before the call; a train
\* call with a discrete series changes only the level set and leaves range_c
\* as it was; so after any sequence of mixed train calls, the first
\* continuous one on an unset range_c included.
TrainRoutesBySeriesDtype ==
    sop = "train" =>
        /\ scale._limits = scalePrev._limits
        /\ trained = "continuous" => scale.range = scalePrev.range
        /\ trained = "discrete" => scale.range_c = scalePrev.range_c
        /\ trained \in {"continuous", "discrete"}

\* the first continuous train of a scale that holds discrete levels has set
\* range_c
FirstContinuousTrainAfterLevels ==
    /\ sop = "train"
    /\ trained = "continuous"
    /\ scalePrev.range # {}
    /\ scalePrev.range_c = None
    /\ scale.range_c # None

(***************************************************************************)
(* Properties of layer.layer_mapping                                       *)
(***************************************************************************)
\* the mapping of the layer of the call merged over that of the plot: the
\* entry of the layer on every aesthetic it has, that of the plot elsewhere
MergedOverPlot ==
    [ae \in Keys(aesIn.layer.mapping) \cup Keys(aesIn.plotMapping) |->
        IF ae \in Keys(aesIn.layer.mapping) THEN aesIn.layer.mapping[ae]
        ELSE aesIn.plotMapping[ae]]
\* what the effective mapping is taken from
Taken == IF aesIn.layer.inherit_aes THEN MergedOverPlot ELSE aesIn.layer.mapping
\* its aesthetics that are neither set manually nor computed
Kept == {ae \in Keys(Taken) : ae \notin aesIn.layer.manual_aes /\ Taken[ae].kind # "calc"}

\* C14: layer_mapping is the mapping of the layer alone when inherit_aes is
\* false and the mapping of the layer merged over that of the plot, the
\* entry of the layer winning on a shared aesthetic, when it is true; the
\* result holds no aesthetic set manually as a geometry parameter and no
\* computed aesthetic, and every other aesthetic of that mapping with its
\* value.
LayerMappingEffective ==
    aesOp = "layer_mapping" =>
        /\ aesOut.kind = "mapping"
        /\ Keys(aesOut.mapping) = Kept
        /\ \A ae \in Kept : aesOut.mapping[ae] = Taken[ae]

\* layer_mapping on an inheriting layer whose x differs from the x of the
\* plot, whose color is set manually and whose plot maps y to a computed
\* value: the x of the layer is all that is left
LayerWinsManualAndComputedDropped ==
    /\ aesOp = "layer_mapping"
    /\ aesIn.layer.inherit_aes
    /\ "x" \in Keys(aesIn.layer.mapping) \cap Keys(aesIn.plotMapping)
    /\ aesIn.layer.mapping["x"] # aesIn.plotMapping["x"]
    /\ aesIn.plotMapping["x"].kind = "col"
    /\ "color" \in Keys(aesIn.layer.mapping) \cap aesIn.layer.manual_aes
    /\ "y" \in Keys(aesIn.plotMapping)
    /\ aesIn.plotMapping["y"].kind = "calc"
    /\ aesOut.mapping = [x |-> aesIn.layer.mapping["x"]]

(***************************************************************************)
(* Properties of layer.map_statistic                                       *)
(***************************************************************************)
\* the mapping map_statistic assembles for the layer l: the mapping of the
\* layer, completed by that of the plot when the layer inherits, completed
\* by the default aesthetics of the stat
AssembledMapping(l, plotMapping) ==
    defaults(IF l.inherit_aes THEN defaults(l.mapping, plotMapping) ELSE l.mapping,
             l.stat.DEFAULT_AES)
\* the map_statistic call of the trace entry j ended in an error
RaisedAt(j) == j = Len(trace) /\ pc = "failed"

\* C13: map_statistic returns its input table unchanged when the assembled
\* mapping declares no computed aesthetic; otherwise it returns a table with
\* the rows of the input in which the column named by every computed
\* aesthetic holds the values of the stat column it refers to, and the
\* ScaleSet of the plot has a scale for that aesthetic.
MapStatisticResolvesComputed ==
    \A j \in 1..Len(trace) :
        trace[j].stage = "map_statistic" =>
            LET aesthetics == AssembledMapping(layers[trace[j].layer], plot.mapping)
                computed == is_calculated_aes(aesthetics)
                input == trace[j].input
                output == trace[j].output
            IN  /\ ~RaisedAt(j)
                /\ IF computed = {}
                   THEN output = input
                   ELSE /\ output.n = input.n
                        /\ \A a \in computed :
                               /\ aesthetics[a].name \in Columns(input)
                               /\ a \in Columns(output)
                               /\ output.col[a] = input.col[aesthetics[a].name]
                               /\ \E sc \in plot.scales.scales : sc.aesthetic = a

(***************************************************************************)
(* Properties of stat._print_warning                                       *)
(***************************************************************************)
Occurrences(q, m) == Cardinality({i \in 1..Len(q) : q[i] = m})
\* the messages of the calls that wrote, in the order of the calls
WrittenBy(calls) == SelectSeq(calls, LAMBDA c : c.wrote)

\* C11: over any sequence of _print_warning calls on any stat objects, every
\* message stands at most once on the standard error: the first call with a
\* message writes and records it, every later call with that message, on
\* whichever object, writes nothing; no call raises.
WarningWrittenOnce ==
    /\ \A m \in Messages : Occurrences(stderr, m) <= 1
    /\ \A k \in 1..Len(warned) :
           /\ warned[k].kind = "returned"
           /\ warned[k].wrote <=> \A j \in 1..(k - 1) : warned[j].message # warned[k].message
    /\ stderr = [k \in 1..Len(WrittenBy(warned)) |-> WrittenBy(warned)[k].message]
    /\ _warnings_printed = {warned[k].message : k \in 1..Len(warned)}

\* a message written by a call on one object was asked for again by a call
\* on another object, a deep copy among the two, and that call wrote nothing
WarnedAgainOnAnotherInstance ==
    /\ Len(instances) = 2
    /\ instances[2].origin = "__deepcopy__"
    /\ \E j, k \in 1..Len(warned) :
           /\ j < k
           /\ warned[j].message = warned[k].message
           /\ warned[j].on # warned[k].on
           /\ warned[j].wrote
           /\ ~warned[k].wrote

====
